---- MODULE Spec2Model ----
(***************************************************************************)
(* Model of the invoice tool's frontend: the container entrypoint that     *)
(* generates env.js from env.template.js, the runtime configuration        *)
(* written by configureRuntimeEnv, the backend base URL computed by        *)
(* app.js, and the fetch-and-render handlers of the three dashboard        *)
(* actions.                                                                *)
(*                                                                         *)
(* A JavaScript string is a sequence of one-character strings, so that     *)
(* trim, parseInt, template literals and String.includes are computed      *)
(* character by character.  An optional value (an unset shell variable, an *)
(* undefined window property) is a sequence of length 0 or 1.              *)
(***************************************************************************)
EXTENDS Integers, Sequences, FiniteSets, TLC

VARIABLES
    pc,              \* "container" | "served" | "configured" | "ready"
    env,             \* process environment of the frontend container
    viaEntrypoint,   \* env.js was generated by docker-entrypoint.sh
    envjs,           \* contents of the two string literals of env.js
    window,          \* window.__BACKEND_URL__ and window.__BACKEND_PORT__
    location,        \* window.location of the page
    backendBaseUrl,  \* the constant of app.js, None before the script ran
    endpointText,    \* textContent of #backend-endpoint
    results,         \* textContent and 'error' class of each result area
    inflight,        \* the fetch calls that have not settled
    microtasks,      \* rejections whose catch block has yet to run
    lastRender,      \* history: the displayResult call last made on each area
    triggers,        \* history: handler runs that got past validation
    issued,          \* history: GET requests handed to fetch
    unconstructed,   \* history: handler runs whose new URL(...) threw
    settled          \* history: the fetchFromBackend promise settled last

configVars == <<pc, env, viaEntrypoint, envjs, window, location, backendBaseUrl, endpointText>>

pageVars ==
    <<results, inflight, microtasks, lastRender, triggers, issued, unconstructed, settled>>

vars == <<configVars, pageVars>>

---------------------------------------------------------------------------
(* Optional values *)

None == <<>>
Some(v) == <<v>>

---------------------------------------------------------------------------
(* Bounds of the model *)

\* longest run of whitespace put around a substitution input
MaxPad == 1

---------------------------------------------------------------------------
(* String primitives of the JavaScript runtime *)

IsWhitespace(c) == c \in {" ", "\t", "\n", "\r"}

RECURSIVE TrimStart(_)
TrimStart(s) ==
    IF s # <<>> /\ IsWhitespace(Head(s)) THEN TrimStart(Tail(s)) ELSE s

RECURSIVE TrimEnd(_)
TrimEnd(s) ==
    IF s # <<>> /\ IsWhitespace(s[Len(s)])
    THEN TrimEnd(SubSeq(s, 1, Len(s) - 1))
    ELSE s

\* String.prototype.trim
trim(s) == TrimEnd(TrimStart(s))

\* s starts with p
StartsWith(s, p) == Len(p) <= Len(s) /\ SubSeq(s, 1, Len(p)) = p

\* String.prototype.includes
includes(s, p) ==
    \E i \in 1..(Len(s) - Len(p) + 1) : SubSeq(s, i, i + Len(p) - 1) = p

\* n spaces, n tabs
Pad(n) == [i \in 1..n |-> " "]
Tabs(n) == [i \in 1..n |-> "\t"]

DigitChars == <<"0", "1", "2", "3", "4", "5", "6", "7", "8", "9">>

IsDigit(c) == \E d \in 1..10 : DigitChars[d] = c

DigitValue(c) == (CHOOSE d \in 1..10 : DigitChars[d] = c) - 1

\* the longest prefix of s made of decimal digits
RECURSIVE DigitsPrefix(_)
DigitsPrefix(s) ==
    IF s # <<>> /\ IsDigit(Head(s))
    THEN <<Head(s)>> \o DigitsPrefix(Tail(s))
    ELSE <<>>

RECURSIVE DecimalValue(_)
DecimalValue(ds) ==
    IF ds = <<>>
    THEN 0
    ELSE 10 * DecimalValue(SubSeq(ds, 1, Len(ds) - 1)) + DigitValue(ds[Len(ds)])

\* A JavaScript number as parseInt can return it: NaN or an integer.
NaNValue == [kind |-> "NaN", val |-> 0]
Num(n) == [kind |-> "num", val |-> n]

\* Number.parseInt(str, 10): leading whitespace is skipped, one sign is
\* accepted, then the longest run of digits is read and anything after it
\* is ignored; no digit at all gives NaN.
parseInt(str) ==
    LET s == TrimStart(str)
        signed == s # <<>> /\ Head(s) \in {"+", "-"}
        negative == s # <<>> /\ Head(s) = "-"
        ds == DigitsPrefix(IF signed THEN Tail(s) ELSE s)
    IN  IF ds = <<>>
        THEN NaNValue
        ELSE Num(IF negative THEN 0 - DecimalValue(ds) ELSE DecimalValue(ds))

\* isFinite without the check: every parse result passes
isFinite_Always(x) == TRUE

\* Number.isFinite
isFinite(x) == x.kind = "num"

RECURSIVE NatToString(_)
NatToString(n) ==
    IF n < 10
    THEN <<DigitChars[n + 1]>>
    ELSE NatToString(n \div 10) \o <<DigitChars[(n % 10) + 1]>>

\* the string a template literal or String() makes of an integer
NumberToString(n) ==
    IF n < 0 THEN <<"-">> \o NatToString(0 - n) ELSE NatToString(n)

---------------------------------------------------------------------------
(* docker-entrypoint.sh and env.template.js *)

NameUrl == <<"B", "A", "C", "K", "E", "N", "D", "_", "U", "R", "L">>
NamePort == <<"B", "A", "C", "K", "E", "N", "D", "_", "P", "O", "R", "T">>

\* the text ${NAME}
Reference(name) == <<"$", "{">> \o name \o <<"}">>

\* the two string literals of env.template.js that envsubst rewrites
TemplateUrl == Reference(NameUrl)
TemplatePort == Reference(NamePort)

\* ${VAR:=word}: an unset or empty variable is assigned word
AssignDefault(v, word) == IF v = None \/ v = Some(<<>>) THEN word ELSE v[1]

\* EntrypointEnv with the frontend's own port as the default
EntrypointEnv_Port8080(e) ==
    [BACKEND_URL |-> AssignDefault(e.BACKEND_URL, <<>>),
     BACKEND_PORT |-> AssignDefault(e.BACKEND_PORT, <<"8", "0", "8", "0">>)]

\* the environment after lines 4 and 5 of the entrypoint
EntrypointEnv(e) ==
    [BACKEND_URL |-> AssignDefault(e.BACKEND_URL, <<>>),
     BACKEND_PORT |-> AssignDefault(e.BACKEND_PORT, <<"8", "0", "0", "0">>)]

\* envsubst '${BACKEND_URL} ${BACKEND_PORT}': every ${BACKEND_URL} and
\* ${BACKEND_PORT} of the text is replaced by the variable's value; the
\* inserted value is not scanned again.
RECURSIVE envsubst(_, _)
envsubst(text, e) ==
    IF text = <<>> THEN <<>>
    ELSE IF StartsWith(text, Reference(NameUrl))
    THEN e.BACKEND_URL
         \o envsubst(SubSeq(text, Len(Reference(NameUrl)) + 1, Len(text)), e)
    ELSE IF StartsWith(text, Reference(NamePort))
    THEN e.BACKEND_PORT
         \o envsubst(SubSeq(text, Len(Reference(NamePort)) + 1, Len(text)), e)
    ELSE <<Head(text)>> \o envsubst(Tail(text), e)

\* '${' + 'BACKEND_URL' + '}': the marker is put together from three
\* literals, none of which envsubst rewrites.
Marker(name, e) ==
    envsubst(<<"$", "{">>, e) \o envsubst(name, e) \o envsubst(<<"}">>, e)

\* The container starts through docker-entrypoint.sh.
Entrypoint ==
    /\ pc = "container"
    /\ LET e == EntrypointEnv(env)
       IN  envjs' = [url |-> envsubst(TemplateUrl, e),
                     port |-> envsubst(TemplatePort, e),
                     markerUrl |-> Marker(NameUrl, e),
                     markerPort |-> Marker(NamePort, e)]
    /\ viaEntrypoint' = TRUE
    /\ pc' = "served"
    /\ UNCHANGED <<env, window, location, backendBaseUrl, endpointText, pageVars>>

\* The template is served as env.js without substitution.
ServeTemplate ==
    /\ pc = "container"
    /\ envjs' = [url |-> TemplateUrl,
                 port |-> TemplatePort,
                 markerUrl |-> Reference(NameUrl),
                 markerPort |-> Reference(NamePort)]
    /\ viaEntrypoint' = FALSE
    /\ pc' = "served"
    /\ UNCHANGED <<env, window, location, backendBaseUrl, endpointText, pageVars>>

\* RuntimeEnv with the inputs compared without trimming them
RuntimeEnv_NoTrim(js, w) ==
    LET configuredUrl == js.url
        configuredPort == js.port
        numericPort == parseInt(configuredPort)
    IN  [BACKEND_URL |->
            IF configuredUrl # <<>> /\ configuredUrl # js.markerUrl
            THEN Some(configuredUrl)
            ELSE w.BACKEND_URL,
         BACKEND_PORT |->
            IF /\ configuredPort # <<>>
               /\ configuredPort # js.markerPort
               /\ isFinite(numericPort)
            THEN Some(numericPort.val)
            ELSE w.BACKEND_PORT]

\* the window properties configureRuntimeEnv leaves behind
RuntimeEnv(js, w) ==
    LET configuredUrl == trim(js.url)
        configuredPort == trim(js.port)
        numericPort == parseInt(configuredPort)
    IN  [BACKEND_URL |->
            IF configuredUrl # <<>> /\ configuredUrl # js.markerUrl
            THEN Some(configuredUrl)
            ELSE w.BACKEND_URL,
         BACKEND_PORT |->
            IF /\ configuredPort # <<>>
               /\ configuredPort # js.markerPort
               /\ isFinite(numericPort)
            THEN Some(numericPort.val)
            ELSE w.BACKEND_PORT]

\* env.js runs: the Environment Injector.
configureRuntimeEnv ==
    /\ pc = "served"
    /\ window' = RuntimeEnv(envjs, window)
    /\ pc' = "configured"
    /\ UNCHANGED <<env, viaEntrypoint, envjs, location, backendBaseUrl, endpointText, pageVars>>

---------------------------------------------------------------------------
(* app.js: the backend base URL *)

defaultPort == 8000

\* the truth value JavaScript gives an optional string
TruthyString(v) == v # None /\ v[1] # <<>>

\* the truth value JavaScript gives an optional integer
TruthyNumber(v) == v # None /\ v[1] # 0

\* ResolveBackendBaseUrl with the precedence reversed: a published port
\* is looked at before the published URL
ResolveBackendBaseUrl_PortFirst(w, loc) ==
    IF TruthyNumber(w.BACKEND_PORT)
    THEN loc.protocol \o <<"/", "/">> \o loc.hostname \o <<":">>
             \o NumberToString(w.BACKEND_PORT[1])
    ELSE IF TruthyString(w.BACKEND_URL)
    THEN w.BACKEND_URL[1]
    ELSE loc.protocol \o <<"/", "/">> \o loc.hostname \o <<":">>
             \o NumberToString(defaultPort)

\* the value of the constant backendBaseUrl
ResolveBackendBaseUrl(w, loc) ==
    IF TruthyString(w.BACKEND_URL)
    THEN w.BACKEND_URL[1]
    ELSE LET port == IF TruthyNumber(w.BACKEND_PORT)
                     THEN w.BACKEND_PORT[1]
                     ELSE defaultPort
         IN  loc.protocol \o <<"/", "/">> \o loc.hostname \o <<":">>
                 \o NumberToString(port)

---------------------------------------------------------------------------
(* The URL parser of the browser, for http and https URLs without        *)
(* credentials, dot segments or escapes                                  *)

HttpPrefix == <<"h", "t", "t", "p", ":", "/", "/">>
HttpsPrefix == <<"h", "t", "t", "p", "s", ":", "/", "/">>

\* no URL: the parser reported failure and the constructor throws
FailedUrl ==
    [ok |-> FALSE, scheme |-> <<>>, host |-> <<>>, port |-> None, path |-> <<>>]

\* the first index of s at or after i that holds one of chars, else Len(s) + 1
RECURSIVE IndexOfAny(_, _, _)
IndexOfAny(s, chars, i) ==
    IF i > Len(s) \/ s[i] \in chars THEN i ELSE IndexOfAny(s, chars, i + 1)

\* the port a scheme implies; the parser drops it from the URL
DefaultPortOf(scheme) == IF scheme = <<"h", "t", "t", "p">> THEN 80 ELSE 443

HasScheme(s) == StartsWith(s, HttpPrefix) \/ StartsWith(s, HttpsPrefix)

\* code points a host may not hold
ForbiddenHostChars ==
    {" ", "\t", "#", "/", ":", "<", ">", "?", "@", "[", "\\", "]", "^", "|", "%"}

\* The parse of an input that carries its own scheme: scheme, host, port
\* and the rest (path with query); failure on an empty or malformed host
\* and on a port that is not a number below 65536.
ParseAbsolute(s) ==
    IF ~HasScheme(s) THEN FailedUrl
    ELSE
    LET scheme == IF StartsWith(s, HttpsPrefix)
                  THEN <<"h", "t", "t", "p", "s">>
                  ELSE <<"h", "t", "t", "p">>
        start == Len(scheme) + 4
        stop == IndexOfAny(s, {"/", "?", "#"}, start)
        authority == SubSeq(s, start, stop - 1)
        colon == IndexOfAny(authority, {":"}, 1)
        host == SubSeq(authority, 1, colon - 1)
        portText == SubSeq(authority, colon + 1, Len(authority))
        rest == SubSeq(s, stop, Len(s))
    IN  IF \/ host = <<>>
           \/ \E i \in 1..Len(host) : host[i] \in ForbiddenHostChars
           \/ ~(\A i \in 1..Len(portText) : IsDigit(portText[i]))
        THEN FailedUrl
        ELSE IF portText # <<>> /\ DecimalValue(portText) > 65535
        THEN FailedUrl
        ELSE [ok |-> TRUE,
              scheme |-> scheme,
              host |-> host,
              port |-> IF portText = <<>>
                          \/ DecimalValue(portText) = DefaultPortOf(scheme)
                       THEN None
                       ELSE Some(DecimalValue(portText)),
              path |-> IF rest = <<>> \/ Head(rest) # "/"
                       THEN <<"/">> \o rest
                       ELSE rest]

\* the path up to and including its last slash, the query cut off
DirectoryOf(path) ==
    LET p == SubSeq(path, 1, IndexOfAny(path, {"?", "#"}, 1) - 1)
        last == CHOOSE i \in 1..Len(p) :
                    p[i] = "/" /\ \A j \in (i + 1)..Len(p) : p[j] # "/"
    IN  SubSeq(p, 1, last)

\* new URL(url): leading and trailing spaces are stripped, then the input
\* has to carry a scheme.
NewUrl(url) == ParseAbsolute(trim(url))

\* the path appended to the base URL as text instead of resolved against
\* it
NewUrlWithBase_Concat(path, base) == NewUrl(base \o trim(path))

\* new URL(path, base): the base is parsed first and has to be a URL of its
\* own; then an input with a scheme replaces it, an input starting with //
\* keeps its scheme, one starting with / keeps its origin, and any other
\* is resolved against the directory of the base path.
NewUrlWithBase(path, base) ==
    LET b == NewUrl(base)
        input == trim(path)
    IN  IF ~b.ok THEN FailedUrl
        ELSE IF HasScheme(input) THEN ParseAbsolute(input)
        ELSE IF StartsWith(input, <<"/", "/">>)
        THEN ParseAbsolute(b.scheme \o <<":">> \o input)
        ELSE IF input = <<>> THEN b
        ELSE IF Head(input) = "/" THEN [b EXCEPT !.path = input]
        ELSE [b EXCEPT !.path = DirectoryOf(b.path) \o input]

\* URL.origin
Origin(u) ==
    u.scheme \o <<":", "/", "/">> \o u.host
        \o (IF u.port = None THEN <<>> ELSE <<":">> \o NumberToString(u.port[1]))

\* normalizeUrl returning the whole URL instead of its origin
normalizeUrl_Href(url) ==
    LET normalized == NewUrl(url)
    IN  IF normalized.ok THEN Origin(normalized) \o normalized.path ELSE url

\* normalizeUrl of app.js
normalizeUrl(url) ==
    LET normalized == NewUrl(url)
    IN  IF normalized.ok THEN Origin(normalized) ELSE url

---------------------------------------------------------------------------
(* JSON values, JSON.parse and JSON.stringify, for strings without       *)
(* escapes, non-negative integers, the three literals and objects        *)

JString(s) == [t |-> "str", v |-> s]
JNumber(n) == [t |-> "num", v |-> n]
JLiteral(name) == [t |-> "lit", v |-> name]
JObject(members) == [t |-> "obj", v |-> members]

JsonLiterals ==
    { <<"t", "r", "u", "e">>, <<"f", "a", "l", "s", "e">>, <<"n", "u", "l", "l">> }

JsonFail == [ok |-> FALSE, val |-> JLiteral(<<>>), next |-> 0]

RECURSIVE SkipWhitespace(_, _)
SkipWhitespace(s, i) ==
    IF i <= Len(s) /\ IsWhitespace(s[i]) THEN SkipWhitespace(s, i + 1) ELSE i

\* s[i] opens a string: the string and the index after its closing quote
ParseJsonString(s, i) ==
    LET close == IndexOfAny(s, {"\""}, i + 1)
    IN  IF close > Len(s) \/ \E k \in (i + 1)..(close - 1) : s[k] \in {"\\", "\n"}
        THEN JsonFail
        ELSE [ok |-> TRUE, val |-> JString(SubSeq(s, i + 1, close - 1)), next |-> close + 1]

RECURSIVE ParseJsonValue(_, _)
RECURSIVE ParseJsonMembers(_, _, _)

\* the value that starts at or after index i0 of s
ParseJsonValue(s, i0) ==
    LET i == SkipWhitespace(s, i0)
        tail == SubSeq(s, i, Len(s))
    IN  IF i > Len(s) THEN JsonFail
        ELSE IF s[i] = "\"" THEN ParseJsonString(s, i)
        ELSE IF IsDigit(s[i])
        THEN LET ds == DigitsPrefix(tail)
             IN  IF Len(ds) > 1 /\ Head(ds) = "0"
                 THEN [ok |-> TRUE, val |-> JNumber(0), next |-> i + 1]
                 ELSE [ok |-> TRUE, val |-> JNumber(DecimalValue(ds)), next |-> i + Len(ds)]
        ELSE IF \E l \in JsonLiterals : StartsWith(tail, l)
        THEN LET l == CHOOSE l \in JsonLiterals : StartsWith(tail, l)
             IN  [ok |-> TRUE, val |-> JLiteral(l), next |-> i + Len(l)]
        ELSE IF s[i] = "{"
        THEN LET j == SkipWhitespace(s, i + 1)
             IN  IF j <= Len(s) /\ s[j] = "}"
                 THEN [ok |-> TRUE, val |-> JObject(<<>>), next |-> j + 1]
                 ELSE ParseJsonMembers(s, j, <<>>)
        ELSE JsonFail

\* the members of an object from the key at index i on, after the members acc
ParseJsonMembers(s, i, acc) ==
    IF i > Len(s) \/ s[i] # "\"" THEN JsonFail
    ELSE
    LET key == ParseJsonString(s, i)
        colon == SkipWhitespace(s, key.next)
        value == ParseJsonValue(s, colon + 1)
        after == SkipWhitespace(s, value.next)
        members == Append(acc, [key |-> key.val.v, value |-> value.val])
    IN  IF ~key.ok \/ colon > Len(s) THEN JsonFail
        ELSE IF s[colon] # ":" THEN JsonFail
        ELSE IF ~value.ok \/ after > Len(s) THEN JsonFail
        ELSE IF s[after] = "}"
        THEN [ok |-> TRUE, val |-> JObject(members), next |-> after + 1]
        ELSE IF s[after] = ","
        THEN ParseJsonMembers(s, SkipWhitespace(s, after + 1), members)
        ELSE JsonFail

\* JSON.parse: one value and nothing but whitespace after it
JSONparse(s) ==
    LET r == ParseJsonValue(s, 1)
    IN  IF r.ok /\ SkipWhitespace(s, r.next) > Len(s)
        THEN [ok |-> TRUE, val |-> r.val]
        ELSE [ok |-> FALSE, val |-> JLiteral(<<>>)]

Quote(s) == <<"\"">> \o s \o <<"\"">>

RECURSIVE JSONstringify(_, _, _)
RECURSIVE StringifyMembers(_, _, _)

\* JSON.stringify(value, null, space) of a value nested at depth indent
JSONstringify(value, space, indent) ==
    IF value.t = "str" THEN Quote(value.v)
    ELSE IF value.t = "num" THEN NumberToString(value.v)
    ELSE IF value.t = "lit" THEN value.v
    ELSE IF value.v = <<>> THEN <<"{", "}">>
    ELSE <<"{", "\n">> \o StringifyMembers(value.v, space, indent + space)
             \o <<"\n">> \o Pad(indent) \o <<"}">>

StringifyMembers(members, space, indent) ==
    Pad(indent) \o Quote(Head(members).key) \o <<":", " ">>
        \o JSONstringify(Head(members).value, space, indent)
        \o (IF Len(members) = 1
            THEN <<>>
            ELSE <<",", "\n">> \o StringifyMembers(Tail(members), space, indent))

---------------------------------------------------------------------------
(* app.js: result areas and fetchFromBackend *)

\* healthResult, openItemsResult, consoleResult
Areas == {"health", "openItems", "console"}

LoadingText == <<"L", "a", "d", "e", ".", ".", ".">>

InvalidIdText ==
    <<"U", "n", "g", "ü", "l", "t", "i", "g", "e", " ", "O", "r", "g", "a",
      "n", "i", "s", "a", "t", "i", "o", "n", "-", "I", "D", ".">>

HealthPath == <<"/", "h", "e", "a", "l", "t", "h">>

OpenItemsPath ==
    <<"/", "i", "n", "v", "o", "i", "c", "e", "s", "/", "o", "p", "e", "n", "?",
      "o", "r", "g", "a", "n", "i", "z", "a", "t", "i", "o", "n", "_", "i", "d", "=">>

ApplicationJson ==
    <<"a", "p", "p", "l", "i", "c", "a", "t", "i", "o", "n", "/", "j", "s", "o", "n">>

\* message of the TypeError new URL throws
InvalidUrlMessage ==
    <<"F", "a", "i", "l", "e", "d", " ", "t", "o", " ", "c", "o", "n", "s", "t",
      "r", "u", "c", "t", " ", "'", "U", "R", "L", "'", ":", " ", "I", "n", "v",
      "a", "l", "i", "d", " ", "U", "R", "L">>

\* message of the TypeError fetch rejects with
FetchFailedMessage ==
    <<"F", "a", "i", "l", "e", "d", " ", "t", "o", " ", "f", "e", "t", "c", "h">>

\* message of the TypeError a body read rejects with
BodyFailedMessage ==
    <<"n", "e", "t", "w", "o", "r", "k", " ", "e", "r", "r", "o", "r">>

\* message of the SyntaxError response.json() rejects with
JsonErrorMessage ==
    <<"U", "n", "e", "x", "p", "e", "c", "t", "e", "d", " ", "t", "o", "k", "e",
      "n", " ", "i", "n", " ", "J", "S", "O", "N">>

\* the 'space' argument of JSON.stringify in displayResult
StringifySpace == 2

\* displayResult that adds the error class and never takes it away
displayResult_AddOnly(res, container, payload, isError) ==
    [res EXCEPT ![container] =
        [text |-> IF payload.t = "str"
                  THEN payload.v
                  ELSE JSONstringify(payload, StringifySpace, 0),
         error |-> isError \/ res[container].error]]

\* displayResult with one container shared by all the actions
displayResult_Shared(res, container, payload, isError) ==
    [res EXCEPT !["health"] =
        [text |-> IF payload.t = "str"
                  THEN payload.v
                  ELSE JSONstringify(payload, StringifySpace, 0),
         error |-> isError]]

\* displayResult(container, payload, isError) on the result areas res
displayResult(res, container, payload, isError) ==
    [res EXCEPT ![container] =
        [text |-> IF payload.t = "str"
                  THEN payload.v
                  ELSE JSONstringify(payload, StringifySpace, 0),
         error |-> isError]]

\* a settled promise of fetchFromBackend
Resolved(data) == [rejected |-> FALSE, value |-> data]
Rejected(message) == [rejected |-> TRUE, value |-> JString(message)]

\* ok with redirects counted as success
ok_Below400(status) == status >= 200 /\ status < 400

\* Response.ok
ok(status) == status >= 200 /\ status <= 299

\* fetchFromBackend with the content-type compared for equality
fetchFromBackend_ExactType(status, statusText, contentType, body) ==
    IF ~ok(status)
    THEN Rejected(NumberToString(status) \o <<" ">> \o statusText
                      \o <<":", " ">> \o body)
    ELSE IF contentType = Some(ApplicationJson)
    THEN LET parsed == JSONparse(body)
         IN  IF parsed.ok THEN Resolved(parsed.val) ELSE Rejected(JsonErrorMessage)
    ELSE Resolved(JString(body))

\* What fetchFromBackend settles with once the response with this status
\* line and content-type header has delivered its body.
fetchFromBackend(status, statusText, contentType, body) ==
    IF ~ok(status)
    THEN Rejected(NumberToString(status) \o <<" ">> \o statusText
                      \o <<":", " ">> \o body)
    ELSE IF TruthyString(contentType) /\ includes(contentType[1], ApplicationJson)
    THEN LET parsed == JSONparse(body)
         IN  IF parsed.ok THEN Resolved(parsed.val) ELSE Rejected(JsonErrorMessage)
    ELSE Resolved(JString(body))

\* StartRequest without the displayResult call in front of fetchFromBackend
StartRequest_NoPlaceholder(res, a, path, base, id) ==
    LET url == NewUrlWithBase(path, base)
    IN  [results |-> res,
         request |-> IF url.ok
                     THEN Some([id |-> id, action |-> a, url |-> url,
                                stage |-> "sent", status |-> 0,
                                statusText |-> <<>>, contentType |-> None,
                                placeholder |-> res[a].text])
                     ELSE None,
         thrown |-> IF url.ok
                    THEN None
                    ELSE Some([id |-> id, action |-> a,
                               message |-> InvalidUrlMessage])]

\* A handler from its displayResult(..., 'Lade...') to its first await: the
\* result areas it leaves, and either the request it handed to fetch or the
\* exception new URL threw.  The request records what its area showed when
\* fetch was called.
StartRequest(res, a, path, base, id) ==
    LET shown == displayResult(res, a, JString(LoadingText), FALSE)
        url == NewUrlWithBase(path, base)
    IN  [results |-> shown,
         request |-> IF url.ok
                     THEN Some([id |-> id, action |-> a, url |-> url,
                                stage |-> "sent", status |-> 0,
                                statusText |-> <<>>, contentType |-> None,
                                placeholder |-> shown[a].text])
                     ELSE None,
         thrown |-> IF url.ok
                    THEN None
                    ELSE Some([id |-> id, action |-> a,
                               message |-> InvalidUrlMessage])]

\* the state change of a handler run that got past validation
Begin(a, path, base) ==
    LET h == StartRequest(results, a, path, base, triggers + 1)
    IN  /\ results' = h.results
        /\ inflight' = inflight \cup {h.request[i] : i \in DOMAIN h.request}
        /\ microtasks' = microtasks \o h.thrown
        /\ lastRender' = [lastRender EXCEPT ![a] = [kind |-> "loading", id |-> triggers + 1]]
        /\ triggers' = triggers + 1
        /\ issued' = issued + Len(h.request)
        /\ unconstructed' = unconstructed + Len(h.thrown)
        /\ UNCHANGED settled

\* Finish without a catch block: a rejection leaves the area as it is
Finish_NoCatch(a, id, source, response, outcome) ==
    /\ results' = IF outcome.rejected
                  THEN results
                  ELSE displayResult(results, a, outcome.value, FALSE)
    /\ lastRender' = IF outcome.rejected
                     THEN lastRender
                     ELSE [lastRender EXCEPT ![a] = [kind |-> "success", id |-> id]]
    /\ settled' = [id |-> id, action |-> a, source |-> source,
                   status |-> response.status, statusText |-> response.statusText,
                   contentType |-> response.contentType, body |-> response.body,
                   outcome |-> outcome]
    /\ UNCHANGED <<triggers, issued, unconstructed>>

\* Finish that drops the outcome of a run older than the one the area
\* shows
Finish_IgnoreStale(a, id, source, response, outcome) ==
    /\ results' = IF id < lastRender[a].id
                  THEN results
                  ELSE displayResult(results, a, outcome.value, outcome.rejected)
    /\ lastRender' = IF id < lastRender[a].id
                     THEN lastRender
                     ELSE [lastRender EXCEPT ![a] =
                              [kind |-> IF outcome.rejected THEN "error" ELSE "success",
                               id |-> id]]
    /\ settled' = [id |-> id, action |-> a, source |-> source,
                   status |-> response.status, statusText |-> response.statusText,
                   contentType |-> response.contentType, body |-> response.body,
                   outcome |-> outcome]
    /\ UNCHANGED <<triggers, issued, unconstructed>>

\* the rest of a handler once its await has settled with outcome
Finish(a, id, source, response, outcome) ==
    /\ results' = displayResult(results, a, outcome.value, outcome.rejected)
    /\ lastRender' = [lastRender EXCEPT ![a] =
            [kind |-> IF outcome.rejected THEN "error" ELSE "success", id |-> id]]
    /\ settled' = [id |-> id, action |-> a, source |-> source,
                   status |-> response.status, statusText |-> response.statusText,
                   contentType |-> response.contentType, body |-> response.body,
                   outcome |-> outcome]
    /\ UNCHANGED <<triggers, issued, unconstructed>>

NoResponse == [status |-> 0, statusText |-> <<>>, contentType |-> None, body |-> <<>>]

---------------------------------------------------------------------------
(* app.js: page load and event handlers *)

\* AppLoad without the healthButton.click() of the last line
AppLoad_NoClick ==
    /\ pc = "configured"
    /\ backendBaseUrl' = Some(ResolveBackendBaseUrl(window, location))
    /\ endpointText' = normalizeUrl(backendBaseUrl'[1])
    /\ pc' = "ready"
    /\ UNCHANGED <<env, viaEntrypoint, envjs, window, location, pageVars>>

\* app.js runs: the base URL is computed, the endpoint is displayed, the
\* handlers are registered and healthButton.click() runs the health handler.
AppLoad ==
    /\ pc = "configured"
    /\ backendBaseUrl' = Some(ResolveBackendBaseUrl(window, location))
    /\ endpointText' = normalizeUrl(backendBaseUrl'[1])
    /\ Begin("health", HealthPath, backendBaseUrl'[1])
    /\ pc' = "ready"
    /\ UNCHANGED <<env, viaEntrypoint, envjs, window, location>>

\* an event handler can run: the script has run and no microtask is pending
Idle == pc = "ready" /\ microtasks = <<>>

\* HealthClick with the base URL resolved again on every click
HealthClick_Recompute(limit) ==
    /\ Idle
    /\ triggers < limit
    /\ Begin("health", HealthPath, ResolveBackendBaseUrl(window, location))
    /\ UNCHANGED configVars

\* click on #health-check
HealthClick(limit) ==
    /\ Idle
    /\ triggers < limit
    /\ Begin("health", HealthPath, backendBaseUrl[1])
    /\ UNCHANGED configVars

\* OpenItemsSubmit without the validation: the parse result goes into the
\* path whatever it is
OpenItemsSubmit_NoValidation(value, limit) ==
    /\ Idle
    /\ triggers < limit
    /\ LET organizationId == parseInt(value)
       IN  Begin("openItems",
                 OpenItemsPath \o (IF isFinite(organizationId)
                                   THEN NumberToString(organizationId.val)
                                   ELSE <<"N", "a", "N">>),
                 backendBaseUrl[1])
    /\ UNCHANGED configVars

\* submit of #open-items-form with this text in its organization-id field
OpenItemsSubmit(value, limit) ==
    /\ Idle
    /\ LET organizationId == parseInt(value)
       IN  IF ~isFinite(organizationId)
           THEN /\ results' = displayResult(results, "openItems",
                                            JString(InvalidIdText), TRUE)
                /\ lastRender' = [lastRender EXCEPT !["openItems"] =
                                      [kind |-> "invalid", id |-> 0]]
                /\ UNCHANGED <<inflight, microtasks, triggers, issued,
                               unconstructed, settled>>
           ELSE /\ triggers < limit
                /\ Begin("openItems",
                         OpenItemsPath \o NumberToString(organizationId.val),
                         backendBaseUrl[1])
    /\ UNCHANGED configVars

\* submit of #console-form with this text in its console-path field
ConsoleSubmit(value, limit) ==
    /\ Idle
    /\ triggers < limit
    /\ LET pathInput == IF value # <<>> THEN value ELSE <<"/">>
       IN  Begin("console", pathInput, backendBaseUrl[1])
    /\ UNCHANGED configVars

\* RunMicrotask without the catch block: the exception of new URL leaves
\* the handler and nothing is rendered
RunMicrotask_Uncaught ==
    /\ pc = "ready"
    /\ microtasks # <<>>
    /\ microtasks' = Tail(microtasks)
    /\ UNCHANGED <<configVars, inflight, results, lastRender, triggers, issued,
                   unconstructed, settled>>

\* The catch block of a handler whose fetchFromBackend call threw in
\* new URL: it runs before any other event is handled.
RunMicrotask ==
    /\ pc = "ready"
    /\ microtasks # <<>>
    /\ LET m == Head(microtasks)
       IN  Finish(m.action, m.id, "url", NoResponse, Rejected(m.message))
    /\ microtasks' = Tail(microtasks)
    /\ UNCHANGED <<configVars, inflight>>

\* FetchRejects with one retry: the request is handed to fetch again
FetchRejects_Retry(r) ==
    /\ Idle
    /\ r \in inflight
    /\ r.stage = "sent"
    /\ issued <= triggers
    /\ issued' = issued + 1
    /\ UNCHANGED <<configVars, results, inflight, microtasks, lastRender,
                   triggers, unconstructed, settled>>

\* fetch rejects: the request of r failed in transport
FetchRejects(r) ==
    /\ Idle
    /\ r \in inflight
    /\ r.stage = "sent"
    /\ inflight' = inflight \ {r}
    /\ Finish(r.action, r.id, "transport", NoResponse, Rejected(FetchFailedMessage))
    /\ UNCHANGED <<configVars, microtasks>>

\* fetch resolves: status line and headers of the response to r are in,
\* fetchFromBackend starts reading the body and awaits it
ResponseArrives(r, status, statusText, contentType) ==
    /\ Idle
    /\ r \in inflight
    /\ r.stage = "sent"
    /\ inflight' = (inflight \ {r}) \cup
            {[r EXCEPT !.stage = "body", !.status = status,
                       !.statusText = statusText, !.contentType = contentType]}
    /\ UNCHANGED <<configVars, results, microtasks, lastRender, triggers,
                   issued, unconstructed, settled>>

\* the body of the response to r has been read
BodyArrives(r, body) ==
    /\ Idle
    /\ r \in inflight
    /\ r.stage = "body"
    /\ inflight' = inflight \ {r}
    /\ Finish(r.action, r.id, "response",
              [status |-> r.status, statusText |-> r.statusText,
               contentType |-> r.contentType, body |-> body],
              fetchFromBackend(r.status, r.statusText, r.contentType, body))
    /\ UNCHANGED <<configVars, microtasks>>

\* reading the body of the response to r fails
BodyFails(r) ==
    /\ Idle
    /\ r \in inflight
    /\ r.stage = "body"
    /\ inflight' = inflight \ {r}
    /\ Finish(r.action, r.id, "body",
              [status |-> r.status, statusText |-> r.statusText,
               contentType |-> r.contentType, body |-> <<>>],
              Rejected(BodyFailedMessage))
    /\ UNCHANGED <<configVars, microtasks>>

\* Another script of the page assigns window.__BACKEND_URL__ and
\* window.__BACKEND_PORT__ after app.js has run.
AlterRuntimeConfig(url, port) ==
    /\ Idle
    /\ window' = [BACKEND_URL |-> url, BACKEND_PORT |-> port]
    /\ window' # window
    /\ UNCHANGED <<pc, env, viaEntrypoint, envjs, location, backendBaseUrl,
                   endpointText, pageVars>>

---------------------------------------------------------------------------
(* Inputs *)

Padded(cores) ==
    {Pad(l) \o c \o Tabs(r) : c \in cores, l \in 0..MaxPad, r \in 0..MaxPad}

UrlCores ==
    { <<>>,
      Reference(NameUrl),
      <<"h", "t", "t", "p", "s", ":", "/", "/", "a", "p", "i", ".", "e", "x",
        "a", "m", "p", "l", "e", ":", "4", "4", "3">>,
      <<"a", "p", "i", ".", "e", "x", "a", "m", "p", "l", "e">> }

PortCores ==
    { <<>>,
      Reference(NamePort),
      <<"0">>,
      <<"4", "4", "3">>,
      <<"9", "0", "0", "0">>,
      <<"-", "5">>,
      <<"a", "b", "c">>,
      <<"I", "n", "f", "i", "n", "i", "t", "y">>,
      <<"1", "2", "a", "b", "c">> }

HttpLocalhost ==
    [protocol |-> <<"h", "t", "t", "p", ":">>,
     hostname |-> <<"l", "o", "c", "a", "l", "h", "o", "s", "t">>]

Locations ==
    { [protocol |-> <<"h", "t", "t", "p", ":">>,
       hostname |-> <<"l", "o", "c", "a", "l", "h", "o", "s", "t">>],
      [protocol |-> <<"h", "t", "t", "p", "s", ":">>,
       hostname |-> <<"p", "o", "r", "t", "a", "l", ".", "e", "x", "a", "m",
                      "p", "l", "e">>] }

\* no promise of fetchFromBackend has settled yet
NoSettlement ==
    [id |-> 0, action |-> "none", source |-> "none", status |-> 0,
     statusText |-> <<>>, contentType |-> None, body |-> <<>>,
     outcome |-> Resolved(JString(<<>>))]

NoEnvJs == [url |-> <<>>, port |-> <<>>, markerUrl |-> <<>>, markerPort |-> <<>>]

InitWith(urls, ports, locs) ==
    /\ pc = "container"
    /\ env \in [BACKEND_URL : urls, BACKEND_PORT : ports]
    /\ viaEntrypoint = FALSE
    /\ envjs = NoEnvJs
    /\ window = [BACKEND_URL |-> None, BACKEND_PORT |-> None]
    /\ location \in locs
    /\ backendBaseUrl = None
    /\ endpointText = <<>>
    /\ results = [a \in Areas |-> [text |-> <<>>, error |-> FALSE]]
    /\ inflight = {}
    /\ microtasks = <<>>
    /\ lastRender = [a \in Areas |-> [kind |-> "none", id |-> 0]]
    /\ triggers = 0
    /\ issued = 0
    /\ unconstructed = 0
    /\ settled = NoSettlement

---------------------------------------------------------------------------
(* The configuration pipeline alone, over every substitution input *)

InitConfig ==
    InitWith({None} \cup {Some(u) : u \in Padded(UrlCores)},
             {None} \cup {Some(p) : p \in Padded(PortCores)},
             Locations)

NextConfig ==
    \/ Entrypoint
    \/ ServeTemplate
    \/ configureRuntimeEnv
    \/ AppLoad
    \/ RunMicrotask

SpecConfig == InitConfig /\ [][NextConfig]_vars

---------------------------------------------------------------------------
(* The dashboard: the three actions over a few responses *)

\* handler runs that get past validation, the health check of the page
\* load among them
MaxTriggers == 2

ApiExample443 ==
    <<"h", "t", "t", "p", "s", ":", "/", "/", "a", "p", "i", ".", "e", "x",
      "a", "m", "p", "l", "e", ":", "4", "4", "3">>

\* values of the organization-id field
OrganizationIds == { <<"4", "2">>, <<"a", "b", "c">> }

\* values of the console-path field: empty, an absolute URL, no URL at all
ConsolePaths ==
    { <<>>,
      <<"h", "t", "t", "p", ":", "/", "/", "e", "v", "i", "l", ".", "e", "x",
        "a", "m", "p", "l", "e", "/", "x">>,
      <<"h", "t", "t", "p", ":", "/", "/">> }

\* the reason phrase the backend sends with a status
StatusText(status) ==
    CASE status = 200 -> <<"O", "K">>
      [] status = 204 -> <<"N", "o", " ", "C", "o", "n", "t", "e", "n", "t">>
      [] status = 300 -> <<"M", "u", "l", "t", "i", "p", "l", "e", " ", "C", "h",
                           "o", "i", "c", "e", "s">>
      [] status = 404 -> <<"N", "o", "t", " ", "F", "o", "u", "n", "d">>
      [] status = 500 -> <<"I", "n", "t", "e", "r", "n", "a", "l", " ", "S", "e",
                           "r", "v", "e", "r", " ", "E", "r", "r", "o", "r">>
      [] OTHER -> <<>>

TextPlain == <<"t", "e", "x", "t", "/", "p", "l", "a", "i", "n">>

StatusOkBody ==
    <<"{", "\"", "s", "t", "a", "t", "u", "s", "\"", ":", "\"", "o", "k", "\"", "}">>

NotFoundBody == <<"n", "o", "t", " ", "f", "o", "u", "n", "d">>

Statuses == {200, 404}
ContentTypes == {Some(ApplicationJson), Some(TextPlain)}
Bodies == {StatusOkBody, NotFoundBody}

Init ==
    InitWith({None, Some(ApiExample443),
              Some(<<"a", "p", "i", ".", "e", "x", "a", "m", "p", "l", "e">>)},
             {None},
             {HttpLocalhost})

Next ==
    \/ Entrypoint
    \/ configureRuntimeEnv
    \/ AppLoad
    \/ HealthClick(MaxTriggers)
    \/ \E value \in OrganizationIds : OpenItemsSubmit(value, MaxTriggers)
    \/ \E value \in ConsolePaths : ConsoleSubmit(value, MaxTriggers)
    \/ RunMicrotask
    \/ \E r \in inflight : FetchRejects(r)
    \/ \E r \in inflight, status \in Statuses, contentType \in ContentTypes :
            ResponseArrives(r, status, StatusText(status), contentType)
    \/ \E r \in inflight, body \in Bodies : BodyArrives(r, body)
    \/ \E r \in inflight : BodyFails(r)

Spec == Init /\ [][Next]_vars

\* a step that settles, or brings closer to settling, a request of the
\* health check
SettleHealth ==
    \E r \in inflight :
        /\ r.action = "health"
        /\ \/ FetchRejects(r)
           \/ \E status \in Statuses, contentType \in ContentTypes :
                  ResponseArrives(r, status, StatusText(status), contentType)
           \/ \E body \in Bodies : BodyArrives(r, body)
           \/ BodyFails(r)

\* The dashboard when every request of the health check settles and the
\* event loop runs its microtasks.
SpecLive == Spec /\ WF_vars(SettleHealth) /\ WF_vars(RunMicrotask)

---------------------------------------------------------------------------
(* fetchFromBackend over every kind of response, driven by the health    *)
(* check of the page load                                                *)

WideStatuses == {200, 204, 299, 300, 404, 500}

WideContentTypes ==
    { None,
      Some(<<>>),
      Some(ApplicationJson),
      Some(ApplicationJson \o <<";", " ", "c", "h", "a", "r", "s", "e", "t", "=",
                                "u", "t", "f", "-", "8">>),
      Some(TextPlain) }

WideBodies ==
    { <<>>,
      StatusOkBody,
      SubSeq(StatusOkBody, 1, 10),
      <<"\"", "o", "k", "\"">>,
      <<"{", "\"", "a", "\"", ":", "{", "\"", "b", "\"", ":", "1", "}", "}">>,
      NotFoundBody }

InitFetch == InitWith({None, Some(ApiExample443)}, {None}, {HttpLocalhost})

NextFetch ==
    \/ Entrypoint
    \/ configureRuntimeEnv
    \/ AppLoad
    \/ \E r \in inflight : FetchRejects(r)
    \/ \E r \in inflight, status \in WideStatuses, contentType \in WideContentTypes :
            ResponseArrives(r, status, StatusText(status), contentType)
    \/ \E r \in inflight, body \in WideBodies : BodyArrives(r, body)
    \/ \E r \in inflight : BodyFails(r)

SpecFetch == InitFetch /\ [][NextFetch]_vars

---------------------------------------------------------------------------
(* The two forms over every kind of field value, with one kind of        *)
(* response                                                              *)

\* values of the organization-id field: integers, an integer followed by
\* other text, a fraction, text without digits, nothing
WideOrganizationIds ==
    { <<"4", "2">>,
      <<" ", "7">>,
      <<"7", "x">>,
      <<"4", ".", "5">>,
      <<"a", "b", "c">>,
      <<>> }

\* values of the console-path field: nothing, a path, a relative path, an
\* absolute URL on the backend, absolute URLs elsewhere, a URL without
\* scheme, no URL at all
WideConsolePaths ==
    { <<>>,
      <<"/", "d", "o", "c", "s">>,
      <<"d", "o", "c", "s">>,
      ApiExample443 \o <<"/", "d", "o", "c", "s">>,
      <<"h", "t", "t", "p", ":", "/", "/", "e", "v", "i", "l", ".", "e", "x", "a", "m", "p", "l", "e", "/", "x">>,
      <<"/", "/", "e", "v", "i", "l", ".", "e", "x", "a", "m", "p", "l", "e", "/", "x">>,
      <<"h", "t", "t", "p", ":", "/", "/">> }

InitForms == InitWith({None, Some(ApiExample443)}, {None}, {HttpLocalhost})

NextForms ==
    \/ Entrypoint
    \/ configureRuntimeEnv
    \/ AppLoad
    \/ \E value \in WideOrganizationIds : OpenItemsSubmit(value, MaxTriggers)
    \/ \E value \in WideConsolePaths : ConsoleSubmit(value, MaxTriggers)
    \/ RunMicrotask
    \/ \E r \in inflight : FetchRejects(r)
    \/ \E r \in inflight : ResponseArrives(r, 200, StatusText(200), Some(ApplicationJson))
    \/ \E r \in inflight : BodyArrives(r, StatusOkBody)

SpecForms == InitForms /\ [][NextForms]_vars

---------------------------------------------------------------------------
(* The session of a page whose runtime configuration is written again    *)
(* after the page has loaded                                             *)

OtherExample ==
    <<"h", "t", "t", "p", ":", "/", "/", "o", "t", "h", "e", "r", ".", "e", "x", "a", "m", "p", "l", "e">>

\* what a later script leaves in window.__BACKEND_URL__ and
\* window.__BACKEND_PORT__
AlteredUrls == {None, Some(OtherExample)}
AlteredPorts == {None, Some(9000)}

\* values of the console-path field
SessionConsolePaths == { <<>>, <<"/", "d", "o", "c", "s">> }

NextSession ==
    \/ Entrypoint
    \/ configureRuntimeEnv
    \/ AppLoad
    \/ \E url \in AlteredUrls, port \in AlteredPorts : AlterRuntimeConfig(url, port)
    \/ HealthClick(MaxTriggers)
    \/ OpenItemsSubmit(<<"4", "2">>, MaxTriggers)
    \/ \E value \in SessionConsolePaths : ConsoleSubmit(value, MaxTriggers)
    \/ RunMicrotask
    \/ \E r \in inflight : FetchRejects(r)
    \/ \E r \in inflight : ResponseArrives(r, 200, StatusText(200), Some(ApplicationJson))
    \/ \E r \in inflight : BodyArrives(r, StatusOkBody)

SpecSession == Init /\ [][NextSession]_vars

---------------------------------------------------------------------------
(* The endpoint display: normalizeUrl over base URLs of every shape      *)

\* values of BACKEND_URL: URLs with a default port, another port, no port,
\* with and without path, query and fragment, and texts that are no URL
NormalizeInputs ==
    { <<"h", "t", "t", "p", "s", ":", "/", "/", "a", "p", "i", ".", "e", "x", "a", "m", "p", "l", "e", ":", "4", "4", "3", "/", "x", "?", "y", "=", "1">>,
      <<"n", "o", "t", " ", "a", " ", "u", "r", "l">>,
      <<"h", "t", "t", "p", "s", ":", "/", "/", "a", "p", "i", ".", "e", "x", "a", "m", "p", "l", "e", ":", "8", "4", "4", "3", "/", "x", "?", "y", "=", "1", "#", "t", "o", "p">>,
      <<"h", "t", "t", "p", ":", "/", "/", "l", "o", "c", "a", "l", "h", "o", "s", "t", ":", "8", "0">>,
      <<"h", "t", "t", "p", ":", "/", "/", "l", "o", "c", "a", "l", "h", "o", "s", "t", ":", "8", "0", "0", "0", "/">>,
      <<"h", "t", "t", "p", "s", ":", "/", "/", "a", "p", "i", ".", "e", "x", "a", "m", "p", "l", "e">>,
      <<"h", "t", "t", "p", ":", "/", "/">>,
      <<"h", "t", "t", "p", ":", "/", "/", "e", "x", "a", " ", "m", "p", "l", "e", "/">>,
      <<"a", "p", "i", ".", "e", "x", "a", "m", "p", "l", "e">> }

\* values of BACKEND_PORT
NormalizePorts == { <<"4", "4", "3">>, <<"9", "0", "0", "0">> }

InitNormalize ==
    InitWith({None} \cup {Some(u) : u \in NormalizeInputs},
             {None} \cup {Some(p) : p \in NormalizePorts},
             Locations)

NextNormalize ==
    \/ Entrypoint
    \/ configureRuntimeEnv
    \/ AppLoad
    \/ RunMicrotask

SpecNormalize == InitNormalize /\ [][NextNormalize]_vars

---------------------------------------------------------------------------
(* An action triggered again while its request is in flight: the health  *)
(* check and the console, with room for two submits after the page load  *)

\* handler runs of the page load, a click and two submits
MaxRuns == MaxTriggers + 1

\* values of the console-path field: empty, and one no URL can be made of
DoubleConsolePaths == { <<>>, <<"h", "t", "t", "p", ":", "/", "/">> }

InitDouble == InitWith({Some(ApiExample443)}, {None}, {HttpLocalhost})

NextDouble ==
    \/ Entrypoint
    \/ configureRuntimeEnv
    \/ AppLoad
    \/ HealthClick(MaxRuns)
    \/ \E value \in DoubleConsolePaths : ConsoleSubmit(value, MaxRuns)
    \/ RunMicrotask
    \/ \E r \in inflight : FetchRejects(r)
    \/ \E r \in inflight : ResponseArrives(r, 200, StatusText(200), Some(ApplicationJson))
    \/ \E r \in inflight : BodyArrives(r, StatusOkBody)

SpecDouble == InitDouble /\ [][NextDouble]_vars

---------------------------------------------------------------------------
(* Claims about the configuration pipeline, checked under SpecConfig *)

\* protocol//hostname:port for the page at loc
PageUrlWithPort(loc, port) ==
    loc.protocol \o <<"/", "/">> \o loc.hostname \o <<":">> \o NumberToString(port)

AllDigits(s) == \A i \in 1..Len(s) : IsDigit(s[i])

\* s is an optional sign followed by decimal digits and nothing else
IsBase10Integer(s) ==
    LET body == IF s # <<>> /\ Head(s) \in {"+", "-"} THEN Tail(s) ELSE s
    IN  body # <<>> /\ AllDigits(body)

\* s begins with an optional sign followed by a decimal digit
HasIntegerPrefix(s) ==
    LET body == IF s # <<>> /\ Head(s) \in {"+", "-"} THEN Tail(s) ELSE s
    IN  body # <<>> /\ IsDigit(Head(body))

\* C1: once app.js has run, a published window.__BACKEND_URL__ is the
\* backend base URL, character for character, whatever the page location
\* and whether or not window.__BACKEND_PORT__ was published.
C1_InjectedUrlWins ==
    (pc = "ready" /\ window.BACKEND_URL # None)
        => backendBaseUrl = Some(window.BACKEND_URL[1])

\* C1 witness: both a URL and a port were published and the page is loaded.
C1_Witness ==
    /\ pc = "ready"
    /\ window.BACKEND_URL # None
    /\ window.BACKEND_PORT # None
    /\ backendBaseUrl = window.BACKEND_URL

\* C2 as stated: without a published URL the base URL is
\* protocol//hostname:p with p the published port, whatever integer it is,
\* and 8000 only when no port was published.
C2_PublishedPortUsed ==
    (pc = "ready" /\ window.BACKEND_URL = None)
        => backendBaseUrl =
              Some(PageUrlWithPort(location,
                       IF window.BACKEND_PORT # None
                       THEN window.BACKEND_PORT[1]
                       ELSE 8000))

\* C3: after configureRuntimeEnv has run, an input that is empty or the
\* un-substituted placeholder once trimmed leaves its field absent; this is
\* the same as saying that a present field had an input other than that.
C3_PlaceholderLeavesFieldAbsent ==
    pc \in {"configured", "ready"} =>
        /\ trim(envjs.url) \in {<<>>, Reference(NameUrl)}
              => window.BACKEND_URL = None
        /\ trim(envjs.port) \in {<<>>, Reference(NamePort)}
              => window.BACKEND_PORT = None

\* C3 witness: a whitespace-padded placeholder went through the injector,
\* next to a real port value that was published.
C3_Witness ==
    /\ pc = "configured"
    /\ envjs.url # Reference(NameUrl)
    /\ trim(envjs.url) = Reference(NameUrl)
    /\ window.BACKEND_URL = None
    /\ window.BACKEND_PORT # None

\* C4 as stated: a port input that is not purely a base-10 integer leaves
\* window.__BACKEND_PORT__ absent, and port 8000 is used when no URL was
\* published either.
C4_NonIntegerPortAbsent ==
    (pc = "ready" /\ ~IsBase10Integer(trim(envjs.port))) =>
        /\ window.BACKEND_PORT = None
        /\ window.BACKEND_URL = None
              => backendBaseUrl = Some(PageUrlWithPort(location, 8000))

\* C4 amended: a port input that, once trimmed, does not begin with an
\* optional sign and a decimal digit leaves window.__BACKEND_PORT__ absent,
\* and port 8000 is used when no URL was published either.
C4_NoIntegerPrefixPortAbsent ==
    (pc = "ready" /\ ~HasIntegerPrefix(trim(envjs.port))) =>
        /\ window.BACKEND_PORT = None
        /\ window.BACKEND_URL = None
              => backendBaseUrl = Some(PageUrlWithPort(location, 8000))

\* C4 witness: the port input was the text Infinity, no URL was published,
\* and the page loaded with the default port.
C4_Witness ==
    /\ pc = "ready"
    /\ trim(envjs.port) = <<"I", "n", "f", "i", "n", "i", "t", "y">>
    /\ window.BACKEND_PORT = None
    /\ window.BACKEND_URL = None
    /\ backendBaseUrl = Some(PageUrlWithPort(location, 8000))

HttpLocalhost8000 ==
    <<"h", "t", "t", "p", ":", "/", "/", "l", "o", "c", "a", "l", "h", "o",
      "s", "t", ":", "8", "0", "0", "0">>

\* C5: started through docker-entrypoint.sh with neither variable set, the
\* page has no URL published, port 8000 published, and the base URL is the
\* page's protocol and hostname on port 8000 (http://localhost:8000 for a
\* page on localhost); a BACKEND_URL that is not blank replaces the whole
\* base URL, and with no BACKEND_URL a BACKEND_PORT that is a nonzero
\* integer replaces the port.
C5_EntrypointDefaults ==
    (pc = "ready" /\ viaEntrypoint) =>
        /\ (env.BACKEND_URL = None /\ env.BACKEND_PORT = None) =>
              /\ window.BACKEND_URL = None
              /\ window.BACKEND_PORT = Some(8000)
              /\ backendBaseUrl = Some(PageUrlWithPort(location, 8000))
              /\ location = HttpLocalhost
                    => backendBaseUrl = Some(HttpLocalhost8000)
        /\ ( /\ env.BACKEND_URL # None
             /\ trim(env.BACKEND_URL[1]) \notin {<<>>, Reference(NameUrl)} )
              => backendBaseUrl = Some(trim(env.BACKEND_URL[1]))
        /\ ( /\ env.BACKEND_URL = None
             /\ env.BACKEND_PORT # None
             /\ IsBase10Integer(trim(env.BACKEND_PORT[1]))
             /\ parseInt(env.BACKEND_PORT[1]).val # 0 )
              => backendBaseUrl =
                    Some(PageUrlWithPort(location, parseInt(env.BACKEND_PORT[1]).val))

\* C5 witness: the container started with an empty environment and the page
\* on http://localhost resolved http://localhost:8000.
C5_Witness ==
    /\ pc = "ready"
    /\ viaEntrypoint
    /\ env.BACKEND_URL = None
    /\ env.BACKEND_PORT = None
    /\ location = HttpLocalhost
    /\ backendBaseUrl = Some(HttpLocalhost8000)

---------------------------------------------------------------------------
(* Claims about fetchFromBackend, checked under SpecFetch *)

\* the content-type values of the responses that announce JSON
JsonContentTypes ==
    { Some(<<"a", "p", "p", "l", "i", "c", "a", "t", "i", "o", "n", "/", "j",
             "s", "o", "n">>),
      Some(<<"a", "p", "p", "l", "i", "c", "a", "t", "i", "o", "n", "/", "j",
             "s", "o", "n", ";", " ", "c", "h", "a", "r", "s", "e", "t", "=",
             "u", "t", "f", "-", "8">>) }

\* the promise settled last was settled by a response whose body was read
ResponseSettled == settled.source = "response"

Is2xx(status) == status \in 200..299

\* C6: a response with a status outside 200..299 rejects the promise,
\* whatever its content-type and body; the message holds the status in
\* decimal, the status text and the body text, and is what the handler
\* renders as an error (404 with body "not found": "404" and "not found").
C6_Non2xxRejects ==
    /\ (settled.source = "body" /\ ~Is2xx(settled.status)) => settled.outcome.rejected
    /\ (ResponseSettled /\ ~Is2xx(settled.status)) =>
        /\ settled.outcome.rejected
        /\ settled.outcome.value.t = "str"
        /\ includes(settled.outcome.value.v, NumberToString(settled.status))
        /\ includes(settled.outcome.value.v, settled.statusText)
        /\ includes(settled.outcome.value.v, settled.body)
        /\ results[settled.action] = [text |-> settled.outcome.value.v, error |-> TRUE]
        /\ (settled.status = 404 /\ settled.body = NotFoundBody) =>
              /\ includes(settled.outcome.value.v, <<"4", "0", "4">>)
              /\ includes(settled.outcome.value.v,
                          <<"n", "o", "t", " ", "f", "o", "u", "n", "d">>)

\* C6 witness: a 404 announced as JSON with body "not found" was rejected.
C6_Witness ==
    /\ ResponseSettled
    /\ settled.status = 404
    /\ settled.contentType \in JsonContentTypes
    /\ settled.body = NotFoundBody
    /\ settled.outcome.rejected
    /\ results["health"].error

\* C7 as stated: a 2xx response resolves with the parsed structure when its
\* content-type announces JSON and with the raw body text in every other
\* case.
C7_JsonIffContentType ==
    (ResponseSettled /\ Is2xx(settled.status)) =>
        /\ ~settled.outcome.rejected
        /\ settled.contentType \in JsonContentTypes
              => settled.outcome.value = JSONparse(settled.body).val
        /\ settled.contentType \notin JsonContentTypes
              => settled.outcome.value = JString(settled.body)

\* C7 amended: a 2xx response is parsed as JSON exactly when its
\* content-type header is present and holds application/json: the promise
\* then resolves with the parsed structure if the body is valid JSON and
\* rejects with the parse error if it is not; in every other case it
\* resolves with the raw body text ({"status":"ok"} announced as JSON gives
\* the object with status "ok").
C7_JsonParsedIffContentType ==
    (ResponseSettled /\ Is2xx(settled.status)) =>
        /\ (settled.contentType \in JsonContentTypes /\ JSONparse(settled.body).ok)
              => settled.outcome = Resolved(JSONparse(settled.body).val)
        /\ (settled.contentType \in JsonContentTypes /\ ~JSONparse(settled.body).ok)
              => settled.outcome = Rejected(JsonErrorMessage)
        /\ settled.contentType \notin JsonContentTypes
              => settled.outcome = Resolved(JString(settled.body))
        /\ (settled.contentType \in JsonContentTypes /\ settled.body = StatusOkBody)
              => settled.outcome.value =
                    JObject(<<[key |-> <<"s", "t", "a", "t", "u", "s">>,
                               value |-> JString(<<"o", "k">>)]>>)

\* C7 witness: a 200 with a charset parameter after application/json and
\* the body {"status":"ok"} resolved with an object.
C7_Witness ==
    /\ ResponseSettled
    /\ settled.status = 200
    /\ settled.contentType \in JsonContentTypes
    /\ settled.contentType # Some(ApplicationJson)
    /\ settled.body = StatusOkBody
    /\ ~settled.outcome.rejected
    /\ settled.outcome.value.t = "obj"

---------------------------------------------------------------------------
(* Claims about the actions, checked under Spec and SpecLive *)

\* C8 as stated: the requests issued are as many as the handler runs that
\* got past validation, the health check of the page load among them.
C8_RequestsEqualTriggers == issued = triggers

\* C8 amended: a handler run that got past validation issues one request if
\* its target URL could be constructed and none if not, and no settlement
\* issues another: the requests issued are as many as the handler runs that
\* got past validation and whose target URL could be constructed.
C8_OneRequestPerConstructedUrl ==
    /\ issued + unconstructed = triggers
    /\ Cardinality({r.id : r \in inflight}) = Cardinality(inflight)
    /\ \A r \in inflight : r.id \in 1..triggers

\* C8 witness: of two handler runs one had no constructible URL, and the
\* request of the other failed in transport without being sent again.
C8_Witness ==
    /\ triggers = 2
    /\ issued = 1
    /\ unconstructed = 1
    /\ inflight = {}
    /\ microtasks = <<>>
    /\ \E a \in Areas : lastRender[a] = [kind |-> "error", id |-> 1]
    /\ \E a \in Areas : lastRender[a] = [kind |-> "error", id |-> 2]
    /\ results["health"].text = FetchFailedMessage

LoadingShown == [text |-> <<"L", "a", "d", "e", ".", ".", ".">>, error |-> FALSE]

\* every request in flight was handed to fetch while its area showed the
\* placeholder, and an area that shows an outcome shows that of a request
\* that has settled
C9_State ==
    /\ \A r \in inflight : r.placeholder = LoadingShown.text
    /\ \A a \in Areas :
          lastRender[a].kind \in {"success", "error"}
              => /\ lastRender[a].id \in 1..triggers
                 /\ \A r \in inflight : r.id # lastRender[a].id

\* a handler run that gets past validation leaves the placeholder in its
\* own area, and the request it issued is its own
C9_TriggerStep ==
    triggers' = triggers + 1 =>
        \E a \in Areas :
            /\ lastRender'[a] = [kind |-> "loading", id |-> triggers']
            /\ results'[a] = LoadingShown
            /\ \A r \in inflight' \ inflight : r.action = a /\ r.id = triggers'

\* an outcome is rendered only by the step that settles its request, or by
\* the catch block of a run that had no request to issue
C9_RenderStep ==
    \A a \in Areas :
        (lastRender'[a] # lastRender[a] /\ lastRender'[a].kind \in {"success", "error"})
            => \/ \E r \in inflight \ inflight' :
                    /\ r.action = a
                    /\ r.id = lastRender'[a].id
                    /\ \A q \in inflight' : q.id # r.id
               \/ /\ microtasks # <<>>
                  /\ Head(microtasks).action = a
                  /\ Head(microtasks).id = lastRender'[a].id

\* C9: for every trigger of an action that got past validation, the loading
\* placeholder is in the action's result area at the end of the handler's
\* synchronous part and was there when the request was issued, and a
\* success or error rendering for that trigger happens only in a step in
\* which the trigger's request settles.
C9_LoadingBeforeOutcome ==
    /\ []C9_State
    /\ [][C9_TriggerStep /\ C9_RenderStep]_vars

\* C9 witness: the open-items form was submitted after the health check
\* had settled; its request is in flight behind the placeholder.
C9_Witness ==
    /\ lastRender["health"].kind = "success"
    /\ lastRender["openItems"] = [kind |-> "loading", id |-> 2]
    /\ results["openItems"] = LoadingShown
    /\ \E r \in inflight : r.action = "openItems" /\ r.id = 2

\* no request of the health check is in flight and none of its catch
\* blocks is pending
HealthQuiet ==
    /\ pc = "ready"
    /\ \A r \in inflight : r.action # "health"
    /\ \A i \in 1..Len(microtasks) : microtasks[i].action # "health"

HealthSettled ==
    /\ lastRender["health"].kind \in {"success", "error"}
    /\ results["health"].error = (lastRender["health"].kind = "error")
    /\ lastRender["health"].kind = "error" => results["health"].text # <<>>

\* C10: when every request of the health check settles, a health result
\* area that shows the placeholder comes to show a payload or an error
\* message; once the page has loaded and no health request is left, it
\* shows one of the two.
C10_HealthSettles ==
    /\ (lastRender["health"].kind = "loading") ~> HealthSettled
    /\ [](HealthQuiet => HealthSettled)

\* C10 witness: the health result area shows the payload {"status":"ok"}
\* as displayResult formats it.
C10_Witness ==
    /\ HealthQuiet
    /\ lastRender["health"].kind = "success"
    /\ results["health"] =
          [text |-> <<"{", "\n", " ", " ", "\"", "s", "t", "a", "t", "u", "s",
                      "\"", ":", " ", "\"", "o", "k", "\"", "\n", "}">>,
           error |-> FALSE]

---------------------------------------------------------------------------
(* Claims about the forms, checked under SpecForms *)

\* s is a decimal number: an optional sign, digits, at most one point
IsDecimalNumber(s) ==
    LET body == IF s # <<>> /\ Head(s) \in {"+", "-"} THEN Tail(s) ELSE s
    IN  /\ \E i \in 1..Len(body) : IsDigit(body[i])
        /\ \A i \in 1..Len(body) : IsDigit(body[i]) \/ body[i] = "."
        /\ Cardinality({i \in 1..Len(body) : body[i] = "."}) <= 1

\* the step issued no request and showed no placeholder: the validation
\* message is in the open-items result area with the error class, and the
\* other result areas are as they were
C11_Rejected ==
    /\ inflight' = inflight
    /\ issued' = issued
    /\ triggers' = triggers
    /\ microtasks' = microtasks
    /\ results'["openItems"] = [text |-> InvalidIdText, error |-> TRUE]
    /\ lastRender'["openItems"].kind = "invalid"
    /\ \A a \in Areas \ {"openItems"} :
          results'[a] = results[a] /\ lastRender'[a] = lastRender[a]

\* C11 as stated: a submit of the open-items form with a field value that
\* is not a number issues no request and shows no placeholder; the
\* validation message is rendered in the same step.
C11_NonNumericRejected ==
    [][\A value \in WideOrganizationIds :
          (~IsDecimalNumber(trim(value)) /\ OpenItemsSubmit(value, MaxTriggers))
              => C11_Rejected]_vars

\* C11 amended: a submit of the open-items form with a field value that,
\* after leading whitespace, does not begin with an optional sign and a
\* decimal digit issues no request and shows no placeholder; the validation
\* message is rendered in the open-items result area in the same step and
\* the other result areas are unchanged.  A value that begins with an
\* integer is sent as that integer.
C11_NoIntegerPrefixRejected ==
    [][\A value \in WideOrganizationIds :
          OpenItemsSubmit(value, MaxTriggers) =>
              IF ~HasIntegerPrefix(trim(value))
              THEN C11_Rejected
              ELSE /\ triggers' = triggers + 1
                   /\ results'["openItems"].text = LoadingText
                   /\ \A r \in inflight' \ inflight :
                         r.url.path = OpenItemsPath
                                        \o NumberToString(parseInt(value).val)]_vars

\* C11 witness: the validation message is shown next to the placeholder of
\* the health check, whose request is still in flight.
C11_Witness ==
    /\ lastRender["openItems"].kind = "invalid"
    /\ results["openItems"] = [text |-> InvalidIdText, error |-> TRUE]
    /\ results["health"].text = LoadingText
    /\ results["console"].text = <<>>
    /\ issued = 1
    /\ Cardinality(inflight) = 1

---------------------------------------------------------------------------
(* Claims about failures and interleavings, checked under Spec *)

\* the message of the error fetchFromBackend throws for a response whose
\* status is outside 200..299
StatusMessage(status, statusText, body) ==
    NumberToString(status) \o <<" ">> \o statusText \o <<":", " ">> \o body

\* the failure, if any, of the request pipeline in the run that settled
\* last, by the place it happened
C12_Failure(s) ==
    CASE s.source = "url" -> Some(InvalidUrlMessage)
      [] s.source = "transport" -> Some(FetchFailedMessage)
      [] s.source = "body" -> Some(BodyFailedMessage)
      [] s.source = "response" /\ ~Is2xx(s.status) ->
            Some(StatusMessage(s.status, s.statusText, s.body))
      [] s.source = "response" /\ Is2xx(s.status)
            /\ s.contentType \in JsonContentTypes /\ ~JSONparse(s.body).ok ->
            Some(JsonErrorMessage)
      [] OTHER -> None

\* a step that settles a handler run shows, if the pipeline failed, the
\* message of the failure with the error class in the area of that run's
\* action, leaves the other areas alone and leaves the page ready for the
\* next event
C12_FailureStep ==
    settled' # settled =>
        LET failure == C12_Failure(settled')
        IN  /\ settled'.outcome.rejected = (failure # None)
            /\ failure # None =>
                  /\ failure[1] # <<>>
                  /\ results'[settled'.action] = [text |-> failure[1], error |-> TRUE]
            /\ \A b \in Areas \ {settled'.action} : results'[b] = results[b]
            /\ Idle'

\* a request leaves the set in flight, and an exception of new URL leaves
\* the microtask queue, only by settling the run it belongs to
C12_NoEscape ==
    /\ \A r \in inflight :
          (\A q \in inflight' : q.id # r.id)
              => settled'.id = r.id /\ settled'.action = r.action
    /\ microtasks' # microtasks /\ microtasks # <<>>
          => /\ settled'.id = Head(microtasks).id
             /\ settled'.action = Head(microtasks).action
             /\ settled'.outcome = Rejected(Head(microtasks).message)

\* C12: a response outside 200..299, a rejected fetch, a target URL that
\* cannot be constructed and a body announced as JSON that does not parse
\* each end in the catch block of the handler that called fetchFromBackend:
\* the failure's message is shown with the error class in that action's
\* result area, no failure leaves the handler, and afterwards the page is
\* idle, which is all a handler needs to run again.
C12_FailuresCaught == [][C12_FailureStep /\ C12_NoEscape]_vars

\* C12 witness: the console was given a path no URL can be made of, and the
\* message of the exception is shown in the console result area while the
\* health check shows its payload.
C12_Witness ==
    /\ settled.source = "url"
    /\ settled.action = "console"
    /\ results["console"] = [text |-> InvalidUrlMessage, error |-> TRUE]
    /\ lastRender["health"].kind = "success"
    /\ ~results["health"].error
    /\ microtasks = <<>>

\* the requests of action a among these
RequestsOf(a, requests) == {r \in requests : r.action = a}

\* the actions whose result area, rendering record, requests in flight or
\* pending catch blocks differ between the two states of the step
C13_Touched ==
    {a \in Areas :
        \/ results'[a] # results[a]
        \/ lastRender'[a] # lastRender[a]
        \/ RequestsOf(a, inflight') # RequestsOf(a, inflight)
        \/ SelectSeq(microtasks', LAMBDA m : m.action = a)
              # SelectSeq(microtasks, LAMBDA m : m.action = a)}

\* C13: a step of one action (a handler run, the arrival of a response,
\* the settlement of a request with a payload or a failure) changes the
\* text, the error class and the requests in flight of that action only;
\* the other two actions keep theirs, and the page stays loaded so that
\* their handlers run on their next event.
C13_OwnAreaOnly ==
    [][/\ Cardinality(C13_Touched) <= 1
       /\ triggers' # triggers =>
             \E a \in Areas :
                 /\ lastRender'[a] = [kind |-> "loading", id |-> triggers']
                 /\ C13_Touched = {a}
       /\ settled' # settled => C13_Touched = {settled'.action}
       /\ pc = "ready" => pc' = "ready"]_vars

\* C13 witness: the console query has settled with a payload while the
\* health check still waits for the body of its response behind the
\* placeholder, and the open-items area was never written.
C13_Witness ==
    /\ lastRender["console"] = [kind |-> "success", id |-> 2]
    /\ ~results["console"].error
    /\ lastRender["health"] = [kind |-> "loading", id |-> 1]
    /\ results["health"] = LoadingShown
    /\ \E r \in inflight : r.action = "health" /\ r.stage = "body"
    /\ results["openItems"] = [text |-> <<>>, error |-> FALSE]

---------------------------------------------------------------------------
(* Claims about the base URL of the session, checked under SpecSession *)

\* the window properties as app.js found them when it ran
LoadedWindow == RuntimeEnv(envjs, [BACKEND_URL |-> None, BACKEND_PORT |-> None])

\* the base URL app.js computed from them
LoadedBaseUrl == ResolveBackendBaseUrl(LoadedWindow, location)

\* the URLs a handler run of action a can hand to fetch when paths are
\* resolved against base
C14_Targets(a, base) ==
    CASE a = "health" -> {NewUrlWithBase(HealthPath, base)}
      [] a = "openItems" -> {NewUrlWithBase(OpenItemsPath \o <<"4", "2">>, base)}
      [] a = "console" ->
            {NewUrlWithBase(IF value # <<>> THEN value ELSE <<"/">>, base) :
                value \in SessionConsolePaths}

\* C14: backendBaseUrl is what the resolver gave for the window properties
\* and the location found at page load; no step after page load changes
\* it, not even one that writes the window properties again, and every
\* request handed to fetch afterwards, by any action, is resolved against
\* it.
C14_BaseUrlFixed ==
    /\ [](pc = "ready" => backendBaseUrl = Some(LoadedBaseUrl))
    /\ [][/\ pc = "ready" => backendBaseUrl' = backendBaseUrl
          /\ \A r \in inflight' :
                (\A q \in inflight : q.id # r.id)
                    => r.url \in C14_Targets(r.action, LoadedBaseUrl)]_vars

\* C14 witness: the window properties name another backend than at page
\* load, and the second health check is in flight to the backend of the
\* page load.
C14_Witness ==
    /\ pc = "ready"
    /\ window.BACKEND_URL = Some(OtherExample)
    /\ LoadedWindow.BACKEND_URL = Some(ApiExample443)
    /\ backendBaseUrl = Some(ApiExample443)
    /\ \E r \in inflight :
          /\ r.id = 2
          /\ r.action = "health"
          /\ r.url.host = <<"a", "p", "i", ".", "e", "x", "a", "m", "p", "l", "e">>

---------------------------------------------------------------------------
(* Claims about the endpoint display, checked under SpecNormalize *)

EndsWith(s, t) == Len(t) <= Len(s) /\ SubSeq(s, Len(s) - Len(t) + 1, Len(s)) = t

\* scheme and :// as url begins with them
SchemePrefix(url) == IF StartsWith(url, HttpsPrefix) THEN HttpsPrefix ELSE HttpPrefix

\* host and port of url as they are written in it: the text between ://
\* and the first slash, question mark or hash
WrittenAuthority(url) ==
    LET start == Len(SchemePrefix(url)) + 1
    IN  SubSeq(url, start, IndexOfAny(url, {"/", "?", "#"}, start) - 1)

\* the written host and port without a port that is the default of the
\* scheme
AuthorityWithoutDefaultPort(url) ==
    LET authority == WrittenAuthority(url)
        default == IF StartsWith(url, HttpsPrefix)
                   THEN <<":", "4", "4", "3">>
                   ELSE <<":", "8", "0">>
    IN  IF EndsWith(authority, default)
        THEN SubSeq(authority, 1, Len(authority) - Len(default))
        ELSE authority

\* url is an absolute http or https URL the browser can parse
ParsesAsUrl(url) == NewUrl(url).ok

ApiExampleWithPathAndQuery ==
    <<"h", "t", "t", "p", "s", ":", "/", "/", "a", "p", "i", ".", "e", "x",
      "a", "m", "p", "l", "e", ":", "4", "4", "3", "/", "x", "?", "y", "=", "1">>

NotAUrl == <<"n", "o", "t", " ", "a", " ", "u", "r", "l">>

\* C15 as stated: the endpoint display shows, for a base URL that parses,
\* its scheme, host and port as written and nothing of its path, query or
\* fragment (https://api.example:443 for https://api.example:443/x?y=1),
\* and a base URL that does not parse as it is.
C15_OriginKeepsWrittenPort ==
    pc = "ready" =>
        LET url == backendBaseUrl[1]
        IN  /\ ParsesAsUrl(url)
                  => endpointText = SchemePrefix(url) \o WrittenAuthority(url)
            /\ ~ParsesAsUrl(url) => endpointText = url
            /\ url = ApiExampleWithPathAndQuery
                  => endpointText = SubSeq(ApiExampleWithPathAndQuery, 1, 23)
            /\ url = NotAUrl => endpointText = NotAUrl

\* C15 amended: the endpoint display shows, for a base URL that parses as
\* an http or https URL, its origin: scheme, host and the port unless that
\* is the default port of the scheme, and nothing of its path, query or
\* fragment (https://api.example for https://api.example:443/x?y=1); a
\* base URL that does not parse is shown as it is ("not a url").
C15_OriginDropsDefaultPort ==
    /\ pc = "ready" =>
        LET url == backendBaseUrl[1]
        IN  /\ ParsesAsUrl(url)
                  => /\ endpointText = SchemePrefix(url) \o AuthorityWithoutDefaultPort(url)
                     /\ IndexOfAny(endpointText, {"/", "?", "#"},
                                   Len(SchemePrefix(url)) + 1) > Len(endpointText)
            /\ ~ParsesAsUrl(url) => endpointText = url
            /\ url = ApiExampleWithPathAndQuery
                  => endpointText = SubSeq(ApiExampleWithPathAndQuery, 1, 19)
            /\ url = NotAUrl => endpointText = NotAUrl

\* C15 witness: the page loaded with the base URL
\* https://api.example:443/x?y=1 and shows https://api.example.
C15_Witness ==
    /\ pc = "ready"
    /\ backendBaseUrl = Some(ApiExampleWithPathAndQuery)
    /\ endpointText = <<"h", "t", "t", "p", "s", ":", "/", "/", "a", "p", "i",
                        ".", "e", "x", "a", "m", "p", "l", "e">>

---------------------------------------------------------------------------
(* Claims about the page load, checked under Spec *)

Untouched == [text |-> <<>>, error |-> FALSE]

\* the step in which app.js runs
C16_PageLoad == pc = "configured" /\ pc' = "ready"

\* what the page load leaves whether or not a request was issued: one
\* handler run, the placeholder in the health area, the other two areas
\* as the document had them
C16_HealthTriggered ==
    /\ triggers = 0
    /\ triggers' = 1
    /\ results'["health"] = LoadingShown
    /\ lastRender'["health"] = [kind |-> "loading", id |-> 1]
    /\ \A a \in {"openItems", "console"} :
          results'[a] = Untouched /\ lastRender'[a].kind = "none"

\* one request is in flight, for /health on the base URL
C16_OneHealthRequest ==
    /\ issued' = 1
    /\ Cardinality(inflight') = 1
    /\ \A r \in inflight' :
          /\ r.action = "health"
          /\ r.stage = "sent"
          /\ r.url.path = <<"/", "h", "e", "a", "l", "t", "h">>
          /\ Origin(r.url) = Origin(NewUrl(backendBaseUrl'[1]))

\* C16 as stated: the page load runs the health check once: at its end the
\* health area shows the placeholder, one request for /health on the base
\* URL has been issued and the other two areas are untouched; no handler
\* ran before.
C16_OneRequestAtLoad ==
    /\ [](pc # "ready" => triggers = 0 /\ inflight = {})
    /\ [][C16_PageLoad => C16_HealthTriggered /\ C16_OneHealthRequest]_vars

\* C16 amended: the page load runs the health check once: at its end the
\* health area shows the placeholder and the other two areas are untouched;
\* if the base URL parses, one request for /health on the base URL has
\* been issued, and if it does not, none has and the catch block of the
\* health handler is the next thing to run; no handler ran before.
C16_OneTriggerAtLoad ==
    /\ [](pc # "ready" => triggers = 0 /\ inflight = {})
    /\ [][C16_PageLoad =>
            /\ C16_HealthTriggered
            /\ IF NewUrl(backendBaseUrl'[1]).ok
               THEN C16_OneHealthRequest /\ microtasks' = <<>>
               ELSE /\ issued' = 0
                    /\ inflight' = {}
                    /\ microtasks' = <<[id |-> 1, action |-> "health",
                                        message |-> InvalidUrlMessage]>>]_vars

\* C16 witness: the page has just loaded with a base URL that parses; the
\* request of the health check is on its way and nothing else happened.
C16_Witness ==
    /\ pc = "ready"
    /\ NewUrl(backendBaseUrl[1]).ok
    /\ triggers = 1
    /\ issued = 1
    /\ \E r \in inflight : r.action = "health" /\ r.stage = "sent" /\ r.id = 1
    /\ results["health"] = LoadingShown
    /\ results["openItems"] = Untouched
    /\ results["console"] = Untouched
    /\ settled.source = "none"

---------------------------------------------------------------------------
(* Claims about an action triggered again, checked under SpecDouble *)

\* what displayResult leaves in an area for this outcome
Rendering(outcome) ==
    [text |-> IF outcome.value.t = "str"
              THEN outcome.value.v
              ELSE JSONstringify(outcome.value, StringifySpace, 0),
     error |-> outcome.rejected]

\* a handler run of an action that has a request in flight leaves that
\* request as it is, and the request it issues is one more in flight
C17_TriggerStep ==
    \A a \in Areas :
        ( /\ triggers' = triggers + 1
          /\ lastRender'[a] = [kind |-> "loading", id |-> triggers']
          /\ RequestsOf(a, inflight) # {} )
            => /\ RequestsOf(a, inflight) \subseteq inflight'
               /\ issued' = issued + 1 =>
                     /\ Cardinality(RequestsOf(a, inflight'))
                           = Cardinality(RequestsOf(a, inflight)) + 1
                     /\ \E r \in inflight' \ inflight :
                           r.action = a /\ r.id = triggers' /\ r.stage = "sent"

\* a settlement writes its outcome into the area of its action, whether or
\* not a younger run of the action has settled before, and leaves the
\* other requests of the action in flight
C17_SettleStep ==
    settled' # settled =>
        /\ results'[settled'.action] = Rendering(settled'.outcome)
        /\ lastRender'[settled'.action].id = settled'.id
        /\ \A r \in inflight : r.id # settled'.id => r \in inflight'

\* an area that shows an outcome of the action that settled last shows
\* the outcome that settled last
C17_LastSettledShown ==
    (settled.source # "none"
        /\ lastRender[settled.action].kind \in {"success", "error"})
      => /\ lastRender[settled.action].id = settled.id
         /\ results[settled.action] = Rendering(settled.outcome)

\* C17: a handler run that issues a request while an earlier request of
\* the same action is in flight leaves the earlier one in flight: two
\* requests are outstanding; each settlement overwrites the action's
\* result area, and the area ends up with the outcome of the request that
\* settled last, whichever run it belongs to.
C17_LastSettlementWins ==
    /\ []C17_LastSettledShown
    /\ [][C17_TriggerStep /\ C17_SettleStep]_vars

\* C17 witness: the health check was clicked while the request of the page
\* load was in flight; the request of the click settled first, that of the
\* page load last, and the area shows the outcome of the page load's.
C17_Witness ==
    /\ triggers = 2
    /\ issued = 2
    /\ lastRender["console"].kind = "none"
    /\ lastRender["openItems"].kind = "none"
    /\ inflight = {}
    /\ settled.action = "health"
    /\ settled.id = 1
    /\ lastRender["health"] = [kind |-> "error", id |-> 1]
    /\ results["health"] = [text |-> FetchFailedMessage, error |-> TRUE]

---------------------------------------------------------------------------
(* Claims about the error class and the request targets, checked under   *)
(* Spec and SpecForms                                                    *)

\* the renderings that are errors: the validation message and the
\* message of a caught failure
ErrorRenderings == {"invalid", "error"}

\* C18: a result area has the class 'error' exactly when the last
\* rendering into it was the validation message or the message of a caught
\* failure; an area never written has none, and a step that renders the
\* placeholder or a payload into an area with the class takes it away.
C18_ErrorClassIffErrorRendered ==
    /\ [](\A a \in Areas :
            results[a].error = (lastRender[a].kind \in ErrorRenderings))
    /\ [][\A a \in Areas :
            ( /\ results[a].error
              /\ lastRender'[a] # lastRender[a]
              /\ lastRender'[a].kind \in {"loading", "success"} )
                => ~results'[a].error]_vars

\* C18 witness: the health check of the page load failed in transport,
\* the health check was clicked again, and the placeholder stands without
\* the error class.
C18_Witness ==
    /\ settled.action = "health"
    /\ settled.id = 1
    /\ settled.outcome.rejected
    /\ lastRender["health"] = [kind |-> "loading", id |-> 2]
    /\ results["health"] = [text |-> LoadingText, error |-> FALSE]

\* u has the origin of the base URL
OnBaseOrigin(u) ==
    LET b == NewUrl(backendBaseUrl[1])
    IN  u.scheme = b.scheme /\ u.host = b.host /\ u.port = b.port

\* the requests the step hands to fetch
NewRequests == {r \in inflight' : \A q \in inflight : q.id # r.id}

\* the requests of the health check and of the open-items form are for
\* /health and for /invoices/open with an integer organization_id, on the
\* origin of the base URL
C19_FixedTargets ==
    \A r \in inflight :
        /\ r.action = "health" =>
              OnBaseOrigin(r.url) /\ r.url.path = <<"/", "h", "e", "a", "l", "t", "h">>
        /\ r.action = "openItems" =>
              /\ OnBaseOrigin(r.url)
              /\ StartsWith(r.url.path,
                    <<"/", "i", "n", "v", "o", "i", "c", "e", "s", "/", "o", "p",
                      "e", "n", "?", "o", "r", "g", "a", "n", "i", "z", "a", "t",
                      "i", "o", "n", "_", "i", "d", "=">>)
              /\ IsBase10Integer(SubSeq(r.url.path, Len(OpenItemsPath) + 1,
                                        Len(r.url.path)))

\* the organization_id sent is the integer parsed from the field, an empty
\* console path is sent as / on the base URL, and an absolute URL in the
\* console is requested as it is
C19_SubmitTargets ==
    /\ \A value \in WideOrganizationIds :
          OpenItemsSubmit(value, MaxTriggers) =>
              \A r \in NewRequests :
                  SubSeq(r.url.path, Len(OpenItemsPath) + 1, Len(r.url.path))
                      = NumberToString(parseInt(value).val)
    /\ \A value \in WideConsolePaths :
          ConsoleSubmit(value, MaxTriggers) =>
              /\ \A r \in NewRequests :
                    /\ value = <<>> => OnBaseOrigin(r.url) /\ r.url.path = <<"/">>
                    /\ HasScheme(trim(value)) => r.url = NewUrl(value)
              /\ (NewUrl(backendBaseUrl[1]).ok /\ NewUrl(value).ok)
                    => \E r \in NewRequests : r.url = NewUrl(value)

====
